---------------------------- MODULE Spec2Model ----------------------------
(* Squat repetition counter of the FormAnalyzer screen                      *)
(* (src/app/src/screens/CameraScreen.js) and the joint-angle function       *)
(* (src/app/src/utils/CalculateAngle.ts).                                   *)
(*                                                                          *)
(* Landmark coordinates are normalised floats in the program; the model     *)
(* places them on an integer grid of CoordScale steps per unit.  Angles are *)
(* scale invariant, so only maxKneeForward carries the scale.               *)
EXTENDS Integers, Sequences, FiniteSets, TLC

(* ------------------------------------------------------------------ *)
(* Bounds of the model                                                 *)
(* ------------------------------------------------------------------ *)
\* grid steps per unit of normalised coordinate
CoordScale == 8
\* Date.now() at construction, in ms (any value above the warning timeout)
StartTime == 5000
\* the clock advances in steps of TickMs
TickMs == 2000
\* the clock is followed for MaxTicks steps
MaxTicks == 2
\* repetitions counted before frames that would count another are cut off
MaxReps == 2
\* in the specification with fairness, frames arrive during the first
\* LiveTicks ticks only, and the clock runs on while an expiry is awaited
LiveTicks == 1
\* calculateAngle on its own is called with coordinates in 0..ProbeMax
ProbeMax == 2
\* the history of a descent keeps its first MaxRecorded frames
MaxRecorded == 4
\* the streaming screen makes at most MaxSockets sockets and MaxIntervals
\* capture intervals, and has at most MaxDelayed delayed starts pending
MaxSockets == 2
MaxIntervals == 2
MaxDelayed == 2

(* ------------------------------------------------------------------ *)
(* JavaScript numbers: integers plus not-a-number                      *)
(* ------------------------------------------------------------------ *)
\* the result of 0/0 in calculateAngle; compares false with everything
NaN == 99999

IsNaN(v) == v = NaN

\* a > b in JavaScript
Gt(a, b) == ~IsNaN(a) /\ ~IsNaN(b) /\ a > b

\* a < b in JavaScript
Lt(a, b) == ~IsNaN(a) /\ ~IsNaN(b) /\ a < b

\* Math.max(a, b)
MathMax(a, b) == IF IsNaN(a) \/ IsNaN(b) THEN NaN ELSE IF a > b THEN a ELSE b

\* Math.min(a, b)
MathMin(a, b) == IF IsNaN(a) \/ IsNaN(b) THEN NaN ELSE IF a < b THEN a ELSE b

\* a - b in JavaScript
Minus(a, b) == IF IsNaN(a) \/ IsNaN(b) THEN NaN ELSE a - b

(* ------------------------------------------------------------------ *)
(* calculateAngle                                                      *)
(* ------------------------------------------------------------------ *)
\* scale of the squared-cosine table
CosScale == 100000

\* CosSq[k] = round(CosScale * cos((k - 0.5) degrees)^2), k in 1..90
CosSq ==
  << 99992, 99931, 99810, 99627, 99384, 99081, 98719, 98296, 97815, 97276,
     96679, 96025, 95315, 94550, 93731, 92858, 91934, 90958, 89932, 88857,
     87735, 86568, 85355, 84100, 82803, 81466, 80091, 78679, 77232, 75752,
     74240, 72700, 71131, 69537, 67918, 66278, 64619, 62941, 61248, 59540,
     57822, 56093, 54358, 52617, 50873, 49127, 47383, 45642, 43907, 42178,
     40460, 38752, 37059, 35381, 33722, 32082, 30463, 28869, 27300, 25760,
     24248, 22768, 21321, 19909, 18534, 17197, 15900, 14645, 13432, 12265,
     11143, 10068,  9042,  8066,  7142,  6269,  5450,  4685,  3975,  3321,
      2724,  2185,  1704,  1281,   919,   616,   373,   190,    69,     8 >>

\* Math.round(180 - acos(dot / sqrt(magSq)) * 180 / PI) >= k, for magSq > 0:
\* it is so exactly when -dot / sqrt(magSq) <= cos((k - 0.5) degrees), which
\* is decided on the squares, with the sign of each side
RoundsToAtLeast(k, dot, magSq) ==
  \/ k = 0
  \/ /\ k \in 1..90
     /\ dot >= 0 \/ dot * dot * CosScale <= CosSq[k] * magSq
  \/ /\ k \in 91..180
     /\ dot > 0 /\ dot * dot * CosScale >= CosSq[181 - k] * magSq

\* the largest k in lo..hi with RoundsToAtLeast(k, ...), which is monotone
RECURSIVE LargestDegree(_, _, _, _)
LargestDegree(lo, hi, dot, magSq) ==
  IF lo = hi
    THEN lo
    ELSE LET mid == (lo + hi + 1) \div 2
         IN  IF RoundsToAtLeast(mid, dot, magSq)
               THEN LargestDegree(mid, hi, dot, magSq)
               ELSE LargestDegree(lo, mid - 1, dot, magSq)

\* variant: the angle between the two vectors itself, not its supplement
RoundedInterior(dot, magSq) == 180 - LargestDegree(0, 180, dot, magSq)

\* variant: the angle taken from the full turn
RoundedReflex(dot, magSq) == 360 - LargestDegree(0, 180, dot, magSq)

\* Math.round(180 - acos(dot / sqrt(magSq)) * 180 / PI) for magSq > 0
RoundedExterior(dot, magSq) == LargestDegree(0, 180, dot, magSq)

\* variant: the second vector taken from the origin, not from the vertex
calculateAngleLopsided(a, b, c) ==
  LET vectorBA == << a[1] - b[1], a[2] - b[2] >>
      vectorBC == << c[1], c[2] >>
      dotProduct == vectorBA[1] * vectorBC[1] + vectorBA[2] * vectorBC[2]
      magSqBA == vectorBA[1] * vectorBA[1] + vectorBA[2] * vectorBA[2]
      magSqBC == vectorBC[1] * vectorBC[1] + vectorBC[2] * vectorBC[2]
  IN  IF magSqBA * magSqBC = 0
        THEN NaN
        ELSE RoundedExterior(dotProduct, magSqBA * magSqBC)

\* calculateAngle(a, b, c): points are <<x, y>>
calculateAngle(a, b, c) ==
  LET vectorBA == << a[1] - b[1], a[2] - b[2] >>
      vectorBC == << c[1] - b[1], c[2] - b[2] >>
      dotProduct == vectorBA[1] * vectorBC[1] + vectorBA[2] * vectorBC[2]
      magSqBA == vectorBA[1] * vectorBA[1] + vectorBA[2] * vectorBA[2]
      magSqBC == vectorBC[1] * vectorBC[1] + vectorBC[2] * vectorBC[2]
  IN  IF magSqBA * magSqBC = 0
        THEN NaN
        ELSE RoundedExterior(dotProduct, magSqBA * magSqBC)


(* ------------------------------------------------------------------ *)
(* Landmark frames                                                     *)
(* ------------------------------------------------------------------ *)
\* LANDMARK_INDICES
LANDMARK_INDICES ==
  [ RIGHT_SHOULDER |-> 11, RIGHT_HIP |-> 23, RIGHT_KNEE |-> 25,
    RIGHT_ANKLE |-> 27, RIGHT_HEEL |-> 29, RIGHT_FOOT_INDEX |-> 31 ]

RequiredIndices == { 11, 23, 25, 27, 29, 31 }

\* a detected landmark {x, y}, and a slot without a detection
Landmark(p) == [ present |-> TRUE, x |-> p[1], y |-> p[2] ]

Absent == [ present |-> FALSE, x |-> 0, y |-> 0 ]

\* the payload of onLandmark: 33 slots, of which analyzeSquat reads six
Pose(shoulder, hip, knee, ankle, heel, foot) ==
  [ length |-> 33,
    at |-> [ i \in RequiredIndices |->
               CASE i = 11 -> Landmark(shoulder)
                 [] i = 23 -> Landmark(hip)
                 [] i = 25 -> Landmark(knee)
                 [] i = 27 -> Landmark(ankle)
                 [] i = 29 -> Landmark(heel)
                 [] i = 31 -> Landmark(foot) ] ]

\* the same payload with the slot at index i empty
Without(landmarks, i) == [ landmarks EXCEPT !.at[i] = Absent ]

\* data.landmarks missing or an empty array
NoLandmarks == [ length |-> 0, at |-> [ i \in RequiredIndices |-> Absent ] ]

\* poses named by the knee angle they yield; hip and heel angle 90, knee.x 4
Knee20 == Pose(<<1, 7>>, <<0, 3>>, <<4, 2>>, <<7, 0>>, <<0, 2>>, <<0, 0>>)
Knee29 == Pose(<<0, 3>>, <<3, 0>>, <<4, 1>>, <<6, 8>>, <<0, 1>>, <<0, 0>>)
Knee30 == Pose(<<3, 7>>, <<1, 4>>, <<4, 2>>, <<5, 0>>, <<0, 2>>, <<0, 0>>)
Knee50 == Pose(<<0, 4>>, <<1, 1>>, <<4, 2>>, <<6, 7>>, <<0, 2>>, <<0, 0>>)
Knee70 == Pose(<<1, 7>>, <<0, 3>>, <<4, 2>>, <<6, 5>>, <<0, 2>>, <<0, 0>>)
Knee85 == Pose(<<3, 7>>, <<1, 4>>, <<4, 2>>, <<8, 7>>, <<0, 2>>, <<0, 0>>)
Knee86 == Pose(<<1, 7>>, <<0, 3>>, <<4, 2>>, <<5, 5>>, <<0, 2>>, <<0, 0>>)
Knee90 == Pose(<<0, 0>>, <<0, 2>>, <<4, 2>>, <<4, 0>>, <<0, 3>>, <<1, 7>>)
Knee99 == Pose(<<0, 0>>, <<0, 2>>, <<4, 2>>, <<3, 8>>, <<0, 3>>, <<1, 7>>)
Knee100 == Pose(<<0, 5>>, <<2, 1>>, <<4, 2>>, <<1, 6>>, <<0, 2>>, <<0, 0>>)
Knee120 == Pose(<<1, 6>>, <<0, 4>>, <<4, 2>>, <<1, 0>>, <<0, 2>>, <<0, 0>>)
Knee140 == Pose(<<0, 4>>, <<3, 5>>, <<4, 2>>, <<6, 7>>, <<0, 2>>, <<0, 0>>)
Knee141 == Pose(<<1, 7>>, <<0, 3>>, <<4, 2>>, <<1, 6>>, <<0, 2>>, <<0, 0>>)
Knee150 == Pose(<<1, 6>>, <<0, 4>>, <<4, 2>>, <<0, 8>>, <<0, 2>>, <<0, 0>>)
Knee170 == Pose(<<1, 6>>, <<0, 4>>, <<4, 2>>, <<0, 5>>, <<0, 2>>, <<0, 0>>)

\* knee angle 100 with hip angle 120, heel angle 60 and knee.x 5
Knee100Lean == Pose(<<1, 4>>, <<0, 1>>, <<5, 2>>, <<3, 7>>, <<2, 3>>, <<1, 8>>)

\* ankle on the knee: the knee angle is undefined
KneeUndefined ==
  Pose(<<0, 0>>, <<0, 2>>, <<4, 2>>, <<4, 2>>, <<0, 3>>, <<1, 7>>)

\* shoulder on the hip: the hip angle is undefined, the knee angle is 99
HipUndefined ==
  Pose(<<0, 2>>, <<0, 2>>, <<4, 2>>, <<3, 8>>, <<0, 3>>, <<1, 7>>)

\* frames with one required landmark missing, and empty payloads
SkippedFrames ==
  { Without(Knee29, i) : i \in RequiredIndices } \cup { NoLandmarks }

\* frames around the two phase thresholds, 85 and 30, one of them with
\* another posture, and the skipped frames
Frames ==
  { Knee29, Knee30, Knee85, Knee86, Knee100Lean } \cup SkippedFrames

\* frames around the two depth thresholds, 100 and 140
DepthFrames ==
  { Knee29, Knee99, Knee100, Knee140, Knee141, Knee150, NoLandmarks }

\* the frames of scenario 1 of the specification, and one skipped frame
ScenarioFrames ==
  { Knee170, Knee120, Knee90, Knee70, Knee50, Knee20, Without(Knee70, 25) }

\* scenario 1 of the specification, frame by frame
ScenarioSeq == << Knee170, Knee120, Knee90, Knee70, Knee50, Knee20 >>

OffScript == -1

AllFrames ==
  Frames \cup DepthFrames \cup ScenarioFrames
    \cup { KneeUndefined, HipUndefined }

Point(l) == << l.x, l.y >>

\* variant: the guard without the heel
RequiredPresentButHeel(landmarks) ==
  \A i \in RequiredIndices \ { 29 } : landmarks.at[i].present

\* analyzeSquat: if (!rShoulder || !rHip || ... ) return;
RequiredPresent(landmarks) ==
  \A i \in RequiredIndices : landmarks.at[i].present

\* handleLandmark runs analyzeSquat, and analyzeSquat gets past its guard
Processed(landmarks) == landmarks.length > 0 /\ RequiredPresent(landmarks)

KneeAngleOf(landmarks) ==
  calculateAngle(Point(landmarks.at[LANDMARK_INDICES.RIGHT_HIP]),
                 Point(landmarks.at[LANDMARK_INDICES.RIGHT_KNEE]),
                 Point(landmarks.at[LANDMARK_INDICES.RIGHT_ANKLE]))

HipAngleOf(landmarks) ==
  calculateAngle(Point(landmarks.at[LANDMARK_INDICES.RIGHT_SHOULDER]),
                 Point(landmarks.at[LANDMARK_INDICES.RIGHT_HIP]),
                 Point(landmarks.at[LANDMARK_INDICES.RIGHT_KNEE]))

HeelAngleOf(landmarks) ==
  calculateAngle(Point(landmarks.at[LANDMARK_INDICES.RIGHT_FOOT_INDEX]),
                 Point(landmarks.at[LANDMARK_INDICES.RIGHT_HEEL]),
                 Point(landmarks.at[LANDMARK_INDICES.RIGHT_KNEE]))

KneeXOf(landmarks) == landmarks.at[LANDMARK_INDICES.RIGHT_KNEE].x

\* "Calculate angles": the three angles, and knee.x, of every frame of the
\* model
Angles ==
  [ f \in AllFrames |->
      IF RequiredPresent(f)
        THEN [ knee |-> KneeAngleOf(f), hip |-> HipAngleOf(f),
               heel |-> HeelAngleOf(f), kneeX |-> KneeXOf(f) ]
        ELSE [ knee |-> NaN, hip |-> NaN, heel |-> NaN, kneeX |-> NaN ] ]

(* ------------------------------------------------------------------ *)
(* State of the FormAnalyzer component                                 *)
(* ------------------------------------------------------------------ *)
VARIABLES
  squatCounter,        \* useState(0)
  squatStage,          \* useState(null): "null", "up" or "down"
  warningMessages,     \* useState([])
  currentAngles,       \* useState({...})
  displayAngles,       \* useState({..., showingLastRep})
  squatState,          \* useRef({...}).current
  renderedShowing,     \* displayAngles.showingLastRep as the handlers of
                       \* the last render see it
  timers,              \* pending setTimeout callbacks
  now,                 \* Date.now()
  completions,         \* history: completing frames since the last reset
  seenHigh,            \* history: a frame with kneeAngle > 85 was processed
                       \* since the counter was last incremented
  skipped,             \* history: the last handleLandmark call analysed
                       \* nothing
  scenario,            \* history: how many frames of ScenarioSeq have been
                       \* analysed, when nothing else was analysed and the
                       \* counter was not reset; OffScript otherwise
  trace,               \* history: the frames analysed in the latest descent,
                       \* from its entry frame on, when it is recorded
  probe,               \* the last call of calculateAngle made on its own:
                       \* its arguments and its result, or NoProbe
  streaming            \* the streaming screen: isStreaming, as set and as
                       \* the last render saw it, wsRef, the sockets made,
                       \* streamingIntervalRef, the capture intervals that
                       \* run and the delayed starts that are pending

vars == << squatCounter, squatStage, warningMessages, currentAngles,
           displayAngles, squatState, renderedShowing, timers, now,
           completions, seenHigh, skipped, scenario, probe, trace,
           streaming >>

\* angleDisplayTimer: null
NoTimer == 0

\* calculateAngle has not been called on its own
NoProbe == [ called |-> FALSE ]

\* wsRef.current and streamingIntervalRef.current: null
NoSocket == 0
NoInterval == 0

\* the streaming screen after its first render: useState(false), useRef(null)
NotStreaming ==
  [ isStreaming |-> FALSE, renderedStreaming |-> FALSE,
    wsRef |-> NoSocket, sockets |-> << >>,
    streamingIntervalRef |-> NoInterval, intervals |-> {}, started |-> 0,
    delayed |-> 0 ]

\* the history of a descent: not kept, and kept but empty
NoTrace == [ on |-> FALSE, frames |-> << >>, full |-> FALSE ]
EmptyTrace == [ on |-> TRUE, frames |-> << >>, full |-> FALSE ]

TooDeep == "Too deep! Protect your knees"
NotDeepEnough == "Not deep enough! Go deeper"
TestWarningText == "Test Warning!"

\* useState initial value of currentAngles, and what resetCounter sets
DefaultCurrentAngles ==
  [ kneeAngle |-> 0, hipAngle |-> 0, heelAngle |-> 0,
    minKneeAngle |-> 360, minHipAngle |-> 360,
    maxKneeAngle |-> 0, maxHipAngle |-> 0, maxHeelAngle |-> 0,
    hipAnkleDiff |-> 0, minHipAnkleDiff |-> 999,
    maxKneeForward |-> -1 * CoordScale ]

\* useState initial value of displayAngles, and what resetCounter sets
DefaultDisplayAngles ==
  [ kneeAngle |-> 0, hipAngle |-> 0, heelAngle |-> 0,
    minKneeAngle |-> 360, minHipAngle |-> 360,
    maxKneeAngle |-> 0, maxHipAngle |-> 0, maxHeelAngle |-> 0,
    showingLastRep |-> FALSE,
    hipAnkleDiff |-> 0, minHipAnkleDiff |-> 999 ]

\* useRef initial value of squatState
InitialSquatState ==
  [ descending |-> FALSE,
    minKneeAngle |-> 360, minHipAngle |-> 360,
    maxKneeForward |-> -1 * CoordScale,
    depthWarningGiven |-> FALSE, backWarningGiven |-> FALSE,
    toeWarningGiven |-> FALSE,
    lastWarningTime |-> 0,
    maxKneeAngle |-> 0, maxHipAngle |-> 0, maxHeelAngle |-> 0,
    minHipAnkleDiff |-> 999,
    angleDisplayTimer |-> NoTimer ]

Mounted ==
  /\ squatCounter = 0
  /\ squatStage = "null"
  /\ warningMessages = << >>
  /\ currentAngles = DefaultCurrentAngles
  /\ displayAngles = DefaultDisplayAngles
  /\ squatState = InitialSquatState
  /\ renderedShowing = FALSE
  /\ timers = {}
  /\ now = StartTime
  /\ completions = 0
  /\ seenHigh = FALSE
  /\ skipped = FALSE
  /\ scenario = 0
  /\ probe = NoProbe
  /\ streaming = NotStreaming

Init == Mounted /\ trace = NoTrace

(* ------------------------------------------------------------------ *)
(* resetSquatRep                                                       *)
(* ------------------------------------------------------------------ *)
\* variant: the reset that forgets the forward-most knee position
resetSquatRepKeepingForward(state) ==
  [ state EXCEPT
      !.descending = FALSE,
      !.minKneeAngle = 360,
      !.minHipAngle = 360,
      !.maxKneeAngle = 0,
      !.maxHipAngle = 0,
      !.maxHeelAngle = 0,
      !.depthWarningGiven = FALSE,
      !.backWarningGiven = FALSE,
      !.toeWarningGiven = FALSE,
      !.minHipAnkleDiff = 999 ]

\* variant: the reset that flips the phase instead of clearing it
resetSquatRepToggling(state) ==
  [ state EXCEPT
      !.descending = ~state.descending,
      !.minKneeAngle = 360,
      !.minHipAngle = 360,
      !.maxKneeAngle = 0,
      !.maxHipAngle = 0,
      !.maxHeelAngle = 0,
      !.maxKneeForward = -1 * CoordScale,
      !.depthWarningGiven = FALSE,
      !.backWarningGiven = FALSE,
      !.toeWarningGiven = FALSE,
      !.minHipAnkleDiff = 999 ]

\* variant: the reset that leaves the depth warning flag set
resetSquatRepKeepingDepthFlag(state) ==
  [ state EXCEPT
      !.descending = FALSE,
      !.minKneeAngle = 360,
      !.minHipAngle = 360,
      !.maxKneeAngle = 0,
      !.maxHipAngle = 0,
      !.maxHeelAngle = 0,
      !.maxKneeForward = -1 * CoordScale,
      !.backWarningGiven = FALSE,
      !.toeWarningGiven = FALSE,
      !.minHipAnkleDiff = 999 ]

\* squatState.current = {...squatState.current, descending: false, ...}
resetSquatRep(state) ==
  [ state EXCEPT
      !.descending = FALSE,
      !.minKneeAngle = 360,
      !.minHipAngle = 360,
      !.maxKneeAngle = 0,
      !.maxHipAngle = 0,
      !.maxHeelAngle = 0,
      !.maxKneeForward = -1 * CoordScale,
      !.depthWarningGiven = FALSE,
      !.backWarningGiven = FALSE,
      !.toeWarningGiven = FALSE,
      !.minHipAnkleDiff = 999 ]

\* resetSquatRep installs a new object in squatState.current: the `state`
\* that a pending callback closed over is no longer the current one
Orphaned(pending) == { [ t EXCEPT !.onCurrent = FALSE ] : t \in pending }

(* ------------------------------------------------------------------ *)
(* analyzeSquat, step by step                                          *)
(* ------------------------------------------------------------------ *)
\* setCurrentAngles({kneeAngle, hipAngle, heelAngle, ...squatState extrema})
LiveCurrentAngles(state, kneeAngle, hipAngle, heelAngle) ==
  [ kneeAngle |-> kneeAngle, hipAngle |-> hipAngle, heelAngle |-> heelAngle,
    minKneeAngle |-> state.minKneeAngle, minHipAngle |-> state.minHipAngle,
    hipAnkleDiff |-> 0,
    maxKneeAngle |-> state.maxKneeAngle, maxHipAngle |-> state.maxHipAngle,
    maxHeelAngle |-> state.maxHeelAngle,
    minHipAnkleDiff |-> state.minHipAnkleDiff,
    maxKneeForward |-> state.maxKneeForward ]

\* setDisplayAngles({..., showingLastRep: false}) of the live view
LiveDisplayAngles(state, kneeAngle, hipAngle, heelAngle) ==
  [ kneeAngle |-> kneeAngle, hipAngle |-> hipAngle, heelAngle |-> heelAngle,
    minKneeAngle |-> state.minKneeAngle, minHipAngle |-> state.minHipAngle,
    showingLastRep |-> FALSE,
    hipAnkleDiff |-> 0,
    maxKneeAngle |-> state.maxKneeAngle, maxHipAngle |-> state.maxHipAngle,
    maxHeelAngle |-> state.maxHeelAngle,
    minHipAnkleDiff |-> state.minHipAnkleDiff ]

\* variant: the descent threshold confused with the completion threshold
StartsDescentAbove29(state, kneeAngle) ==
  Gt(kneeAngle, 29) /\ ~state.descending

\* variant: the descent threshold taken inclusively
StartsDescentAt85(state, kneeAngle) ==
  ~IsNaN(kneeAngle) /\ kneeAngle >= 85 /\ ~state.descending

\* if (kneeAngle > 85 && !state.descending)
StartsDescent(state, kneeAngle) == Gt(kneeAngle, 85) /\ ~state.descending

\* the body of "Start going down"
EnterDescent(state, kneeAngle, hipAngle, heelAngle) ==
  [ state EXCEPT
      !.descending = TRUE,
      !.maxKneeAngle = kneeAngle,
      !.maxHipAngle = hipAngle,
      !.maxHeelAngle = heelAngle,
      !.minKneeAngle = kneeAngle ]

\* variant: tracking that smooths the knee angle instead of keeping its peak
TrackAnglesSmoothed(state, kneeAngle, hipAngle, heelAngle, kneeX) ==
  [ state EXCEPT
      !.maxKneeAngle = (state.maxKneeAngle + kneeAngle) \div 2,
      !.maxHipAngle = MathMax(state.maxHipAngle, hipAngle),
      !.maxHeelAngle = MathMax(state.maxHeelAngle, heelAngle),
      !.maxKneeForward = MathMax(state.maxKneeForward, kneeX),
      !.minKneeAngle = MathMin(state.minKneeAngle, kneeAngle) ]

\* variant: tracking that leaves the smallest knee angle alone
TrackAnglesWithoutMin(state, kneeAngle, hipAngle, heelAngle, kneeX) ==
  [ state EXCEPT
      !.maxKneeAngle = MathMax(state.maxKneeAngle, kneeAngle),
      !.maxHipAngle = MathMax(state.maxHipAngle, hipAngle),
      !.maxHeelAngle = MathMax(state.maxHeelAngle, heelAngle),
      !.maxKneeForward = MathMax(state.maxKneeForward, kneeX) ]

\* variant: tracking that keeps the latest knee angle instead of the largest
TrackAnglesLatest(state, kneeAngle, hipAngle, heelAngle, kneeX) ==
  [ state EXCEPT
      !.maxKneeAngle = kneeAngle,
      !.maxHipAngle = MathMax(state.maxHipAngle, hipAngle),
      !.maxHeelAngle = MathMax(state.maxHeelAngle, heelAngle),
      !.maxKneeForward = MathMax(state.maxKneeForward, kneeX),
      !.minKneeAngle = MathMin(state.minKneeAngle, kneeAngle) ]

\* the body of "While going down, track angles"
TrackAngles(state, kneeAngle, hipAngle, heelAngle, kneeX) ==
  [ state EXCEPT
      !.maxKneeAngle = MathMax(state.maxKneeAngle, kneeAngle),
      !.maxHipAngle = MathMax(state.maxHipAngle, hipAngle),
      !.maxHeelAngle = MathMax(state.maxHeelAngle, heelAngle),
      !.maxKneeForward = MathMax(state.maxKneeForward, kneeX),
      !.minKneeAngle = MathMin(state.minKneeAngle, kneeAngle) ]

\* variant: an updater that counts every repetition twice
IncrementTwice(prev) == prev + 2

\* setSquatCounter((prev) => prev + 1)
Increment(prev) == prev + 1

\* variant: the completion threshold taken inclusively
StandsUpAt30(state, kneeAngle) ==
  ~IsNaN(kneeAngle) /\ kneeAngle <= 30 /\ state.descending

\* variant: the completion test without the phase check
StandsUpAnyPhase(state, kneeAngle) == Lt(kneeAngle, 30)

\* variant: the completion comparison turned round
StandsUpAbove30(state, kneeAngle) == Gt(kneeAngle, 30) /\ state.descending

\* if (kneeAngle < 30 && state.descending)
StandsUp(state, kneeAngle) == Lt(kneeAngle, 30) /\ state.descending

\* variant: the snapshot taken after the extrema were reset
FinalAnglesAfterReset(state, kneeAngle, hipAngle, heelAngle) ==
  [ kneeAngle |-> kneeAngle, hipAngle |-> hipAngle, heelAngle |-> heelAngle,
    minKneeAngle |-> 360, minHipAngle |-> 360,
    showingLastRep |-> TRUE,
    hipAnkleDiff |-> 0,
    maxKneeAngle |-> 0, maxHipAngle |-> 0, maxHeelAngle |-> 0,
    minHipAnkleDiff |-> 999 ]

\* finalAngles
FinalAngles(state, kneeAngle, hipAngle, heelAngle) ==
  [ kneeAngle |-> kneeAngle, hipAngle |-> hipAngle, heelAngle |-> heelAngle,
    minKneeAngle |-> state.minKneeAngle, minHipAngle |-> state.minHipAngle,
    showingLastRep |-> TRUE,
    hipAnkleDiff |-> 0,
    maxKneeAngle |-> state.maxKneeAngle, maxHipAngle |-> state.maxHipAngle,
    maxHeelAngle |-> state.maxHeelAngle,
    minHipAnkleDiff |-> state.minHipAnkleDiff ]

\* variant: the depth thresholds taken inclusively
DepthWarningsInclusive(state) ==
  IF ~state.depthWarningGiven
    THEN IF ~IsNaN(state.maxKneeAngle) /\ state.maxKneeAngle >= 140
           THEN << TooDeep >>
         ELSE IF ~IsNaN(state.maxKneeAngle) /\ state.maxKneeAngle <= 100
           THEN << NotDeepEnough >>
         ELSE << >>
    ELSE << >>

\* newWarnings after "Check knee position"
DepthWarnings(state) ==
  IF ~state.depthWarningGiven
    THEN IF Gt(state.maxKneeAngle, 140) THEN << TooDeep >>
         ELSE IF Lt(state.maxKneeAngle, 100) THEN << NotDeepEnough >>
         ELSE << >>
    ELSE << >>

\* variant: the expiry threshold taken inclusively
WarningsExpiredAt2000(currentTime, state) ==
  ~Lt(Minus(currentTime, state.lastWarningTime), 2000)

\* if (currentTime - state.lastWarningTime > 2000)
WarningsExpired(currentTime, state) ==
  Gt(Minus(currentTime, state.lastWarningTime), 2000)

\* the handle setTimeout returns: one no pending callback and no stored
\* handle carries (handles that nothing refers to are interchangeable)
NewTimerId(pending, handle) ==
  CHOOSE i \in 1..(Cardinality(pending) + 2) :
    i # handle /\ \A t \in pending : t.id # i

\* variant: a clearTimeout that cancels nothing
clearTimeoutIgnored(pending, handle) == pending

\* clearTimeout(handle)
clearTimeout(pending, handle) == { t \in pending : t.id # handle }

(* ------------------------------------------------------------------ *)
(* Actions                                                             *)
(* ------------------------------------------------------------------ *)
\* the history of the descent with nothing in it
Forgotten == [ trace EXCEPT !.frames = << >>, !.full = FALSE ]

\* the history of the descent after analyzeSquat went through a frame: the
\* entry frame opens it, a frame tracked while descending is added to it (up
\* to MaxRecorded frames, after which it is marked full), and a frame
\* analysed between two descents empties it
Recorded(landmarks, starts) ==
  IF ~trace.on THEN trace
  ELSE IF starts THEN [ trace EXCEPT !.frames = << landmarks >>,
                                     !.full = FALSE ]
  ELSE IF ~squatState.descending THEN Forgotten
  ELSE IF Len(trace.frames) < MaxRecorded
    THEN [ trace EXCEPT !.frames = Append(trace.frames, landmarks) ]
    ELSE [ trace EXCEPT !.full = TRUE ]

\* the history variables after a frame was analysed
History(landmarks, kneeAngle, stands) ==
  /\ trace' = Recorded(landmarks, StartsDescent(squatState, kneeAngle))
  /\ completions' = IF squatState.descending /\ Lt(kneeAngle, 30)
                      THEN completions + 1 ELSE completions
  /\ seenHigh' = IF stands THEN FALSE ELSE seenHigh \/ Gt(kneeAngle, 85)
  /\ skipped' = FALSE
  /\ scenario' = IF /\ scenario \in 0..(Len(ScenarioSeq) - 1)
                    /\ landmarks = ScenarioSeq[scenario + 1]
                   THEN scenario + 1 ELSE OffScript

\* a handleLandmark call that analyses nothing
Skip ==
  /\ skipped' = TRUE
  /\ UNCHANGED << streaming, probe, trace, squatCounter, squatStage, warningMessages, currentAngles,
                  displayAngles, squatState, renderedShowing, timers, now,
                  completions, seenHigh, scenario >>

\* variant: a new timer set without clearing the existing one
ScheduleExpiryKeepingOld(state, pending, due) ==
  LET id == NewTimerId(pending, state.angleDisplayTimer)
  IN  [ pending |-> pending \cup
                      { [ id |-> id, due |-> due, onCurrent |-> TRUE ] },
        state |-> [ state EXCEPT !.angleDisplayTimer = id ] ]

\* "Clear any existing timer" and "Set timer to stop showing last rep
\* angles": the pending callbacks and `state` afterwards
ScheduleExpiry(state, pending, due) ==
  LET cleared == IF state.angleDisplayTimer # NoTimer
                   THEN clearTimeout(pending, state.angleDisplayTimer)
                   ELSE pending
      id == NewTimerId(cleared, state.angleDisplayTimer)
  IN  [ pending |-> cleared \cup
                      { [ id |-> id, due |-> due, onCurrent |-> TRUE ] },
        state |-> [ state EXCEPT !.angleDisplayTimer = id ] ]

\* variant: warnings emitted without stamping lastWarningTime
EvaluateFormUnstamped(state, currentTime) ==
  LET newWarnings == DepthWarnings(state)
  IN  [ newWarnings |-> newWarnings,
        state |-> IF Len(newWarnings) > 0
                    THEN [ state EXCEPT !.depthWarningGiven = TRUE ]
                    ELSE state ]

\* "Check knee position" up to state.lastWarningTime = currentTime:
\* newWarnings and `state` afterwards
EvaluateForm(state, currentTime) ==
  LET newWarnings == DepthWarnings(state)
  IN  [ newWarnings |-> newWarnings,
        state |-> IF Len(newWarnings) > 0
                    THEN [ state EXCEPT !.depthWarningGiven = TRUE,
                                        !.lastWarningTime = currentTime ]
                    ELSE state ]

\* the end of analyzeSquat when the frame completes a repetition: state2 is
\* `state` after tracking, form is EvaluateForm's result
CommitRep(landmarks, kneeAngle, hipAngle, heelAngle, state2, pending, form) ==
  /\ squatCounter < MaxReps
  /\ currentAngles' =
       LiveCurrentAngles(squatState, kneeAngle, hipAngle, heelAngle)
  /\ displayAngles' = FinalAngles(state2, kneeAngle, hipAngle, heelAngle)
  /\ squatCounter' = Increment(squatCounter)
  /\ squatStage' = "up"
  /\ squatState' = resetSquatRep(form.state)
  /\ timers' = Orphaned(pending)
  /\ warningMessages' =
       IF WarningsExpired(now, form.state) THEN << >>
       ELSE IF Len(form.newWarnings) > 0 THEN form.newWarnings
       ELSE warningMessages
  /\ History(landmarks, kneeAngle, TRUE)
  /\ UNCHANGED << streaming, probe, renderedShowing, now >>

\* the body of "When user stands up fully"
CompleteRep(landmarks, kneeAngle, hipAngle, heelAngle, state2, sched) ==
  CommitRep(landmarks, kneeAngle, hipAngle, heelAngle, state2,
            sched.pending, EvaluateForm(sched.state, now))

\* variant: a descent entered without setSquatStage('down')
ContinueRepKeepingStage(landmarks, kneeAngle, hipAngle, heelAngle, starts, state2) ==
  /\ currentAngles' =
       LiveCurrentAngles(squatState, kneeAngle, hipAngle, heelAngle)
  /\ displayAngles' =
       IF ~renderedShowing
         THEN LiveDisplayAngles(squatState, kneeAngle, hipAngle, heelAngle)
         ELSE displayAngles
  /\ squatStage' = squatStage
  /\ squatState' = state2
  /\ warningMessages' =
       IF WarningsExpired(now, state2) THEN << >> ELSE warningMessages
  /\ History(landmarks, kneeAngle, FALSE)
  /\ UNCHANGED << streaming, probe, squatCounter, timers, renderedShowing, now >>

\* the end of analyzeSquat when the frame completes nothing
ContinueRep(landmarks, kneeAngle, hipAngle, heelAngle, starts, state2) ==
  /\ currentAngles' =
       LiveCurrentAngles(squatState, kneeAngle, hipAngle, heelAngle)
  /\ displayAngles' =
       IF ~renderedShowing
         THEN LiveDisplayAngles(squatState, kneeAngle, hipAngle, heelAngle)
         ELSE displayAngles
  /\ squatStage' = IF starts THEN "down" ELSE squatStage
  /\ squatState' = state2
  /\ warningMessages' =
       IF WarningsExpired(now, state2) THEN << >> ELSE warningMessages
  /\ History(landmarks, kneeAngle, FALSE)
  /\ UNCHANGED << streaming, probe, squatCounter, timers, renderedShowing, now >>

\* variant: tracking that does not look at the phase
TrackedInAnyPhase(state, kneeAngle, hipAngle, heelAngle, kneeX, starts) ==
  IF starts
    THEN TrackAngles(EnterDescent(state, kneeAngle, hipAngle, heelAngle),
                     kneeAngle, hipAngle, heelAngle, kneeX)
    ELSE TrackAngles(state, kneeAngle, hipAngle, heelAngle, kneeX)

\* `state` after "Start going down" and "While going down, track angles"
Tracked(state, kneeAngle, hipAngle, heelAngle, kneeX, starts) ==
  IF starts
    THEN TrackAngles(EnterDescent(state, kneeAngle, hipAngle, heelAngle),
                     kneeAngle, hipAngle, heelAngle, kneeX)
    ELSE IF state.descending
      THEN TrackAngles(state, kneeAngle, hipAngle, heelAngle, kneeX)
      ELSE state

\* analyzeSquat from "When user stands up fully" on
Ascent(landmarks, kneeAngle, hipAngle, heelAngle, starts, state2) ==
  IF StandsUp(state2, kneeAngle)
    THEN CompleteRep(landmarks, kneeAngle, hipAngle, heelAngle, state2,
                     ScheduleExpiry(state2, timers, now + 3000))
    ELSE ContinueRep(landmarks, kneeAngle, hipAngle, heelAngle, starts,
                     state2)

\* analyzeSquat from "Start going down" on
Descent(landmarks, kneeAngle, hipAngle, heelAngle, kneeX, starts) ==
  Ascent(landmarks, kneeAngle, hipAngle, heelAngle, starts,
         Tracked(squatState, kneeAngle, hipAngle, heelAngle, kneeX, starts))

\* analyzeSquat once the angles are calculated
Analyse(landmarks, kneeAngle, hipAngle, heelAngle, kneeX) ==
  Descent(landmarks, kneeAngle, hipAngle, heelAngle, kneeX,
          StartsDescent(squatState, kneeAngle))

\* analyzeSquat(landmarks)
analyzeSquat(landmarks) ==
  IF ~RequiredPresent(landmarks)
    THEN Skip
    ELSE Analyse(landmarks, Angles[landmarks].knee, Angles[landmarks].hip,
                 Angles[landmarks].heel, Angles[landmarks].kneeX)

\* handleLandmark(data), data.landmarks = landmarks
handleLandmark(landmarks) ==
  IF landmarks.length > 0 THEN analyzeSquat(landmarks) ELSE Skip

\* variant: a resetCounter that leaves the pending expiry alone
resetCounterLeavingTimer ==
  /\ squatCounter' = 0
  /\ warningMessages' = << >>
  /\ squatStage' = "null"
  /\ timers' = Orphaned(timers)
  /\ squatState' = resetSquatRep(squatState)
  /\ displayAngles' = DefaultDisplayAngles
  /\ currentAngles' = DefaultCurrentAngles
  /\ completions' = 0
  /\ scenario' = OffScript
  /\ trace' = Forgotten
  /\ UNCHANGED << streaming, probe, renderedShowing, now, seenHigh, skipped >>

\* variant: a resetCounter that leaves the stage as it is
resetCounterKeepingStage ==
  LET state1 == resetSquatRep(squatState)
      pending == Orphaned(timers)
  IN  /\ squatCounter' = 0
      /\ warningMessages' = << >>
      /\ IF state1.angleDisplayTimer # NoTimer
           THEN /\ timers' = clearTimeout(pending, state1.angleDisplayTimer)
                /\ squatState' = [ state1 EXCEPT !.angleDisplayTimer = NoTimer ]
           ELSE /\ timers' = pending
                /\ squatState' = state1
      /\ displayAngles' = DefaultDisplayAngles
      /\ currentAngles' = DefaultCurrentAngles
      /\ completions' = 0
      /\ scenario' = OffScript
      /\ trace' = Forgotten
      /\ UNCHANGED << streaming, probe, squatStage, renderedShowing, now, seenHigh,
                      skipped >>

\* resetCounter()
resetCounter ==
  LET state1 == resetSquatRep(squatState)
      pending == Orphaned(timers)
  IN  /\ squatCounter' = 0
      /\ warningMessages' = << >>
      /\ squatStage' = "null"
      /\ IF state1.angleDisplayTimer # NoTimer
           THEN /\ timers' = clearTimeout(pending, state1.angleDisplayTimer)
                /\ squatState' = [ state1 EXCEPT !.angleDisplayTimer = NoTimer ]
           ELSE /\ timers' = pending
                /\ squatState' = state1
      /\ displayAngles' = DefaultDisplayAngles
      /\ currentAngles' = DefaultCurrentAngles
      /\ completions' = 0
      /\ scenario' = OffScript
      /\ trace' = Forgotten
      /\ UNCHANGED << streaming, probe, renderedShowing, now, seenHigh, skipped >>

\* variant: a callback that forgets to clear showingLastRep
angleDisplayTimeoutKeepingFlag(t) ==
  /\ t \in timers
  /\ now >= t.due
  /\ timers' = timers \ { t }
  /\ squatState' = IF t.onCurrent
                     THEN [ squatState EXCEPT !.angleDisplayTimer = NoTimer ]
                     ELSE squatState
  /\ UNCHANGED << streaming, probe, trace, squatCounter, squatStage, warningMessages, currentAngles,
                  displayAngles, renderedShowing, now, completions, seenHigh,
                  skipped, scenario >>

\* variant: a callback that puts the default angles on display
angleDisplayTimeoutClearing(t) ==
  /\ t \in timers
  /\ now >= t.due
  /\ timers' = timers \ { t }
  /\ displayAngles' = DefaultDisplayAngles
  /\ squatState' = IF t.onCurrent
                     THEN [ squatState EXCEPT !.angleDisplayTimer = NoTimer ]
                     ELSE squatState
  /\ UNCHANGED << streaming, probe, trace, squatCounter, squatStage, warningMessages,
                  currentAngles, renderedShowing, now, completions,
                  seenHigh, skipped, scenario >>

\* the callback given to setTimeout in analyzeSquat
angleDisplayTimeout(t) ==
  /\ t \in timers
  /\ now >= t.due
  /\ timers' = timers \ { t }
  /\ displayAngles' = [ displayAngles EXCEPT !.showingLastRep = FALSE ]
  /\ squatState' = IF t.onCurrent
                     THEN [ squatState EXCEPT !.angleDisplayTimer = NoTimer ]
                     ELSE squatState
  /\ UNCHANGED << streaming, probe, trace, squatCounter, squatStage, warningMessages, currentAngles,
                  renderedShowing, now, completions, seenHigh, skipped,
                  scenario >>

\* the component renders again: handlers created by this render see the
\* current displayAngles
Render ==
  /\ renderedShowing # displayAngles.showingLastRep
  /\ renderedShowing' = displayAngles.showingLastRep
  /\ UNCHANGED << streaming, probe, trace, squatCounter, squatStage, warningMessages, currentAngles,
                  displayAngles, squatState, timers, now, completions,
                  seenHigh, skipped, scenario >>

\* onPress of the "Test Warning" button
TestWarning ==
  /\ warningMessages' = << TestWarningText >>
  /\ UNCHANGED << streaming, probe, trace, squatCounter, squatStage, currentAngles, displayAngles,
                  squatState, renderedShowing, timers, now, completions,
                  seenHigh, skipped, scenario >>

\* the clock advances
Tick ==
  /\ now < StartTime + MaxTicks * TickMs
  /\ now' = now + TickMs
  /\ UNCHANGED << streaming, probe, trace, squatCounter, squatStage, warningMessages, currentAngles,
                  displayAngles, squatState, renderedShowing, timers,
                  completions, seenHigh, skipped, scenario >>

Frame == \E landmarks \in Frames : handleLandmark(landmarks)

DepthFrame == \E landmarks \in DepthFrames : handleLandmark(landmarks)

ScenarioFrame == \E landmarks \in ScenarioFrames : handleLandmark(landmarks)

Expiry == \E t \in timers : angleDisplayTimeout(t)

Next ==
  \/ Frame
  \/ resetCounter
  \/ Expiry
  \/ Render
  \/ TestWarning
  \/ Tick

Spec == Init /\ [][Next]_vars

NextDepth ==
  \/ DepthFrame
  \/ resetCounter
  \/ Expiry
  \/ Render
  \/ TestWarning
  \/ Tick

\* the component fed with frames around the depth thresholds
SpecDepth == Init /\ [][NextDepth]_vars

NextScenario ==
  \/ ScenarioFrame
  \/ resetCounter
  \/ Expiry
  \/ Render
  \/ TestWarning
  \/ Tick

\* the component fed only with the frames of scenario 1
SpecScenario == Init /\ [][NextScenario]_vars

\* frames with all required landmarks present and an undefined angle, among
\* well-formed ones
MalformedFrames == { Knee29, Knee86, KneeUndefined, HipUndefined }

MalformedFrame ==
  \E landmarks \in MalformedFrames : handleLandmark(landmarks)

NextMalformed ==
  \/ MalformedFrame
  \/ resetCounter
  \/ Expiry
  \/ Render
  \/ TestWarning
  \/ Tick

\* the component fed with frames whose joints may coincide
SpecMalformed == Init /\ [][NextMalformed]_vars

\* frames of the specification with fairness
LiveFrames == { Knee29, Knee86, NoLandmarks }

LiveFrame ==
  /\ now <= StartTime + LiveTicks * TickMs
  /\ \E landmarks \in LiveFrames : handleLandmark(landmarks)

\* the clock advances, as long as frames arrive or an expiry is awaited
TickLive ==
  /\ \/ now < StartTime + LiveTicks * TickMs
     \/ \E t \in timers : now < t.due
  /\ now' = now + TickMs
  /\ UNCHANGED << streaming, probe, trace, squatCounter, squatStage, warningMessages, currentAngles,
                  displayAngles, squatState, renderedShowing, timers,
                  completions, seenHigh, skipped, scenario >>

NextLive ==
  \/ LiveFrame
  \/ resetCounter
  \/ Expiry
  \/ Render
  \/ TickLive

\* the component with time passing and due callbacks run by the event loop
SpecLive ==
  Init /\ [][NextLive]_vars /\ WF_vars(TickLive) /\ WF_vars(Expiry)

\* frames of a descent whose history is kept
RecordedFrames ==
  { Knee29, Knee30, Knee86, Knee100Lean, Knee141, NoLandmarks }

RecordedFrame == \E landmarks \in RecordedFrames : handleLandmark(landmarks)

NextRecorded ==
  \/ RecordedFrame
  \/ resetCounter

\* the component with the history of each descent kept
InitRecorded == Mounted /\ trace = EmptyTrace

SpecRecorded == InitRecorded /\ [][NextRecorded]_vars

\* the points calculateAngle is called with on its own
ProbePoints == (0..ProbeMax) \X (0..ProbeMax)

\* calculateAngle(a, b, c) called on its own, once
Measure ==
  /\ ~probe.called
  /\ \E a \in ProbePoints, b \in ProbePoints, c \in ProbePoints :
       probe' = [ called |-> TRUE, a |-> a, b |-> b, c |-> c,
                  angle |-> calculateAngle(a, b, c) ]
  /\ UNCHANGED << squatCounter, squatStage, warningMessages, currentAngles,
                  displayAngles, squatState, renderedShowing, timers, now,
                  completions, seenHigh, skipped, scenario, trace,
                  streaming >>

NextAngle == Measure

\* calculateAngle applied to the points of a grid
SpecAngle == Init /\ [][NextAngle]_vars

(* ------------------------------------------------------------------ *)
(* The streaming screen                                                *)
(* ------------------------------------------------------------------ *)
\* wsRef.current && wsRef.current.readyState === WebSocket.OPEN
IsOpen(st) == st.wsRef # NoSocket /\ st.sockets[st.wsRef] = "OPEN"

\* connectWebSocket(): the new socket replaces the one in wsRef, which is
\* neither closed nor stripped of its handlers
connectWebSocket(st) ==
  IF IsOpen(st)
    THEN st
    ELSE [ st EXCEPT !.sockets = Append(st.sockets, "CONNECTING"),
                     !.wsRef = Len(st.sockets) + 1 ]

\* if (streamingIntervalRef.current) { clearInterval(...); ... = null; }
ClearInterval(st) ==
  [ st EXCEPT !.intervals = st.intervals \ { st.streamingIntervalRef },
              !.streamingIntervalRef = NoInterval ]

\* startStreaming()
startStreaming(st) ==
  IF ~IsOpen(st)
    THEN connectWebSocket(st)
    ELSE [ st EXCEPT !.isStreaming = TRUE,
                     !.started = st.started + 1,
                     !.streamingIntervalRef = st.started + 1,
                     !.intervals = st.intervals \cup { st.started + 1 } ]

\* stopStreaming()
stopStreaming(st) == ClearInterval([ st EXCEPT !.isStreaming = FALSE ])

\* the state of FormAnalyzer, which the streaming screen does not touch
AnalyzerVars ==
  << squatCounter, squatStage, warningMessages, currentAngles, displayAngles,
     squatState, renderedShowing, timers, now, completions, seenHigh,
     skipped, scenario, probe, trace >>

\* the streaming screen goes to state st, within the bounds
Streams(st) ==
  /\ Len(st.sockets) <= MaxSockets
  /\ st.started <= MaxIntervals
  /\ st.delayed <= MaxDelayed
  /\ streaming' = st
  /\ UNCHANGED AnalyzerVars

\* handleCirclePress(): isStreaming is the one of the last render
handleCirclePress ==
  IF ~streaming.renderedStreaming
    THEN IF ~IsOpen(streaming)
           THEN Streams([ connectWebSocket(streaming) EXCEPT
                            !.delayed = streaming.delayed + 1 ])
           ELSE Streams(startStreaming(streaming))
    ELSE Streams(stopStreaming(streaming))

\* the callback handleCirclePress gave to setTimeout(..., 2000)
DelayedStart ==
  /\ streaming.delayed > 0
  /\ Streams(IF IsOpen(streaming)
               THEN startStreaming([ streaming EXCEPT
                                       !.delayed = streaming.delayed - 1 ])
               ELSE [ streaming EXCEPT !.delayed = streaming.delayed - 1 ])

\* wsRef.current.onopen of socket i
SocketOpen ==
  \E i \in DOMAIN streaming.sockets :
    /\ streaming.sockets[i] = "CONNECTING"
    /\ Streams([ streaming EXCEPT !.sockets[i] = "OPEN" ])

\* wsRef.current.onclose of socket i
SocketClose ==
  \E i \in DOMAIN streaming.sockets :
    /\ streaming.sockets[i] \in { "CONNECTING", "OPEN" }
    /\ Streams(ClearInterval([ streaming EXCEPT !.sockets[i] = "CLOSED",
                                               !.isStreaming = FALSE ]))

\* the streaming screen renders again
StreamRender ==
  /\ streaming.renderedStreaming # streaming.isStreaming
  /\ Streams([ streaming EXCEPT !.renderedStreaming = streaming.isStreaming ])

NextStreaming ==
  \/ handleCirclePress
  \/ DelayedStart
  \/ SocketOpen
  \/ SocketClose
  \/ StreamRender

\* the streaming screen with its button, its sockets and its timers
SpecStreaming == Init /\ [][NextStreaming]_vars

TypeOK ==
  /\ squatCounter \in 0..MaxReps
  /\ squatStage \in { "null", "up", "down" }
  /\ squatState.descending \in BOOLEAN
  /\ renderedShowing \in BOOLEAN

(* ------------------------------------------------------------------ *)
(* Properties                                                          *)
(* ------------------------------------------------------------------ *)
\* a frame as the claims describe it, independently of analyzeSquat's guard
MissingLandmark(f) ==
  f.length = 0 \/ \E i \in RequiredIndices : f.at[i] = Absent

\* C1: squatCounter equals the number of completing frames (descending
\* true, kneeAngle < 30) analysed since the last resetCounter or the start,
\* however many frames fall inside each phase.
C1_CounterIsCompletions == squatCounter = completions

\* two repetitions counted and a third descent under way
C1_Witness ==
  squatCounter = 2 /\ completions = 2 /\ squatState.descending

\* C2: hysteresis.  The counter is incremented only after a frame with
\* kneeAngle > 85 has been analysed since the previous increment, and no
\* frame whose knee angle is 30 or more increments it: oscillating across
\* 85 alone never counts, oscillating across 30 alone counts at most once.
C2_Hysteresis ==
  [][ squatCounter' = squatCounter + 1 =>
        /\ seenHigh
        /\ \A f \in AllFrames :
             handleLandmark(f) => Lt(Angles[f].knee, 30) ]_vars

\* the second increment has just happened
C2_Witness == squatCounter = 2 /\ ~seenHigh /\ ~squatState.descending

\* C3: a frame with a required landmark missing, or with no landmarks,
\* changes nothing of the counter, stage, tracker state, warnings, display
\* snapshot and pending expiry.
C3_SkippedFrameChangesNothing ==
  [][ \A f \in AllFrames :
        MissingLandmark(f) /\ handleLandmark(f)
          => UNCHANGED << squatCounter, squatStage, squatState,
                          warningMessages, displayAngles, currentAngles,
                          timers, completions >> ]_vars

\* a frame was skipped in the middle of a descent, with a snapshot expiry
\* pending and a warning on display
C3_Witness ==
  /\ skipped
  /\ squatState.descending
  /\ timers # {}
  /\ Len(warningMessages) > 0

\* handleLandmark analysed frame f in this step (setCurrentAngles has
\* published its knee angle)
Analysed(f) ==
  /\ currentAngles'.kneeAngle = Angles[f].knee
  /\ ~MissingLandmark(f)
  /\ handleLandmark(f)

C5_Completion ==
  [][ \A f \in AllFrames :
        Analysed(f) =>
          /\ squatCounter' = squatCounter + 1
               <=> (squatState.descending /\ Lt(Angles[f].knee, 30))
          /\ squatCounter' = squatCounter + 1
               => displayAngles' =
                    [ kneeAngle |-> Angles[f].knee,
                      hipAngle |-> Angles[f].hip,
                      heelAngle |-> Angles[f].heel,
                      minKneeAngle |->
                        MathMin(squatState.minKneeAngle, Angles[f].knee),
                      minHipAngle |-> squatState.minHipAngle,
                      showingLastRep |-> TRUE,
                      hipAnkleDiff |-> 0,
                      maxKneeAngle |->
                        MathMax(squatState.maxKneeAngle, Angles[f].knee),
                      maxHipAngle |->
                        MathMax(squatState.maxHipAngle, Angles[f].hip),
                      maxHeelAngle |->
                        MathMax(squatState.maxHeelAngle, Angles[f].heel),
                      minHipAnkleDiff |-> squatState.minHipAnkleDiff ] ]_vars

\* the first repetition was completed by the frame with knee angle 29 after
\* a descent through the leaning frame
C5_Witness ==
  /\ squatCounter = 1
  /\ displayAngles.showingLastRep
  /\ displayAngles.kneeAngle = 29
  /\ displayAngles.hipAngle = 90
  /\ displayAngles.maxKneeAngle = 100
  /\ displayAngles.minKneeAngle = 29
  /\ displayAngles.maxHipAngle = 120

\* the tracker of a repetition that has not started
Neutral(state) ==
  /\ ~state.descending
  /\ state.minKneeAngle = 360
  /\ state.maxKneeAngle = 0
  /\ state.maxHipAngle = 0
  /\ state.maxHeelAngle = 0
  /\ state.maxKneeForward = -1 * CoordScale
  /\ ~state.depthWarningGiven
  /\ ~state.backWarningGiven
  /\ ~state.toeWarningGiven

\* C6: right after a repetition completes, and in every state between
\* handlers where descending is false, the extrema are neutral
\* (minKneeAngle 360, maxKneeAngle, maxHipAngle and maxHeelAngle 0,
\* maxKneeForward -1), the warning flags are false and descending is false.
C6_NeutralBetweenReps ==
  /\ [](~squatState.descending => Neutral(squatState))
  /\ [][squatCounter' = squatCounter + 1 => Neutral(squatState')]_vars

\* a repetition that went through the leaning frame has been completed and
\* the next one has not started
C6_Witness ==
  /\ squatCounter = 1
  /\ ~squatState.descending
  /\ displayAngles.showingLastRep
  /\ displayAngles.maxHipAngle = 120
  /\ squatState.maxHipAngle = 0
  /\ squatState.maxKneeForward = -1 * CoordScale

\* C7: from the initial state, the frames with knee angles 170, 120, 90,
\* 70, 50, 20 (hip and heel angles 90) start the descent at the first frame,
\* the one of 170 degrees, and complete the repetition at the frame of 20
\* degrees: the counter is then 1 and the snapshot holds maxKneeAngle 170.
C7_Scenario ==
  /\ scenario = 0 => ~squatState.descending /\ squatCounter = 0
  /\ scenario \in 1..5 =>
       /\ squatState.descending
       /\ squatCounter = 0
       /\ squatState.maxKneeAngle = 170
       /\ squatState.maxHipAngle = 90
       /\ squatState.maxHeelAngle = 90
  /\ scenario = 6 =>
       /\ ~squatState.descending
       /\ squatCounter = 1
       /\ displayAngles.kneeAngle = 20
       /\ displayAngles.maxKneeAngle = 170

\* the six frames have been analysed and the snapshot is on display
C7_Witness ==
  /\ scenario = 6
  /\ squatCounter = 1
  /\ displayAngles.showingLastRep
  /\ displayAngles.hipAngle = 90
  /\ displayAngles.heelAngle = 90

\* C7 as the specification words it: the descent starts at the frame of 90
\* degrees, the third one, and the snapshot holds maxKneeAngle 90.
C7_AsWritten ==
  /\ scenario \in 0..2 => ~squatState.descending
  /\ scenario \in 3..5 => squatState.descending
  /\ scenario = 6 =>
       /\ ~squatState.descending
       /\ squatCounter = 1
       /\ displayAngles.maxKneeAngle = 90

\* this step completes a repetition: a descent ends and the counter is
\* incremented
Completes ==
  /\ squatState.descending
  /\ ~squatState'.descending
  /\ squatCounter' = squatCounter + 1

\* C8: when a repetition completes, the depth rule is applied to the frozen
\* maxKneeAngle: above 140 the warnings become the "too deep" message alone,
\* below 100 the "not deep enough" message alone, and from 100 to 140
\* inclusive no warning is emitted (the list is kept, or emptied when the
\* last warning is older than 2000 ms); the two messages are never shown
\* together.
C8_DepthRule ==
  /\ [](Len(warningMessages) <= 1)
  /\ [][ Completes =>
           /\ Gt(displayAngles'.maxKneeAngle, 140) =>
                /\ warningMessages' = << TooDeep >>
                /\ squatState'.lastWarningTime = now
           /\ Lt(displayAngles'.maxKneeAngle, 100) =>
                /\ warningMessages' = << NotDeepEnough >>
                /\ squatState'.lastWarningTime = now
           /\ displayAngles'.maxKneeAngle \in 100..140 =>
                /\ squatState'.lastWarningTime = squatState.lastWarningTime
                /\ warningMessages' =
                     IF now - squatState.lastWarningTime > 2000
                       THEN << >> ELSE warningMessages ]_vars

\* a repetition with maxKneeAngle 141 has just been warned about, after one
\* with maxKneeAngle 140 that was not
C8_Witness ==
  /\ squatCounter = 2
  /\ displayAngles.showingLastRep
  /\ displayAngles.maxKneeAngle = 141
  /\ warningMessages = << TooDeep >>
  /\ squatState.lastWarningTime = now
  /\ now > StartTime

\* C9: the form is evaluated in the completing frame only.  A repetition
\* whose maxKneeAngle is 150 makes the warnings the "too deep" message
\* alone; a step that completes no repetition, the "Test Warning" button
\* apart, emits nothing (lastWarningTime is unchanged and the warnings are
\* kept or emptied); depthWarningGiven, set and cleared inside the
\* completing frame, is false between handlers.
C9_FormEvaluatedOnCompletion ==
  /\ [](~squatState.depthWarningGiven)
  /\ [][ /\ Completes /\ displayAngles'.maxKneeAngle = 150
              => warningMessages' = << TooDeep >>
         /\ ~Completes /\ ~TestWarning
              => /\ squatState'.lastWarningTime = squatState.lastWarningTime
                 /\ warningMessages' \in { warningMessages, << >> } ]_vars

\* the repetition with maxKneeAngle 150 was warned about once, and the next
\* descent has started with the snapshot and the warning still on display
C9_Witness ==
  /\ squatCounter = 1
  /\ displayAngles.showingLastRep
  /\ displayAngles.maxKneeAngle = 150
  /\ warningMessages = << TooDeep >>
  /\ squatState.descending
  /\ currentAngles.kneeAngle = 99

\* C10: squatCounter changes only when resetCounter sets it to 0 or when a
\* frame analysed while descending with kneeAngle < 30 adds 1 to it; frames
\* that complete nothing, skipped frames, the snapshot expiry, the warning
\* expiry and every other step leave it unchanged.
C10_CounterChanges ==
  [][ squatCounter' # squatCounter =>
        \/ resetCounter /\ squatCounter' = 0
        \/ /\ squatCounter' = squatCounter + 1
           /\ squatState.descending
           /\ \E f \in AllFrames : Analysed(f) /\ Lt(Angles[f].knee, 30) ]_vars

\* the count of 1 has survived ticks, the snapshot expiry, the warning
\* expiry, the start of the next descent and a skipped frame
C10_Witness ==
  /\ squatCounter = 1
  /\ now > StartTime
  /\ timers = {}
  /\ ~displayAngles.showingLastRep
  /\ warningMessages = << >>
  /\ squatState.descending
  /\ skipped

\* the extrema of a tracker state
Extrema(state) ==
  << state.minKneeAngle, state.maxKneeAngle, state.maxHipAngle,
     state.maxHeelAngle, state.maxKneeForward >>

\* C11: the extrema change only in steps during which descending is true
\* (the entry frame included): a frame analysed while descending is false
\* with kneeAngle <= 85 leaves descending false and every extremum
\* unchanged.
C11_ExtremaOnlyWhileDescending ==
  [][ /\ ~squatState.descending /\ ~squatState'.descending
           => Extrema(squatState') = Extrema(squatState)
      /\ ~squatState.descending =>
           \A f \in AllFrames :
             ~Gt(Angles[f].knee, 85) /\ Analysed(f)
               => /\ ~squatState'.descending
                  /\ Extrema(squatState') = Extrema(squatState) ]_vars

\* the frame with knee angle 85 was analysed between two repetitions
C11_Witness ==
  /\ squatCounter = 1
  /\ ~squatState.descending
  /\ currentAngles.kneeAngle = 85
  /\ currentAngles.hipAngle = 90
  /\ Extrema(squatState) = << 360, 0, 0, 0, -1 * CoordScale >>

\* C12: after resetCounter, from any state, squatCounter is 0, descending
\* is false, the extrema are neutral, the warning flags are false, the
\* warnings are empty, displayAngles is the default with showingLastRep
\* false, and no snapshot expiry is pending.
C12_ResetClearsEverything ==
  [][ resetCounter =>
        /\ squatCounter' = 0
        /\ Neutral(squatState')
        /\ warningMessages' = << >>
        /\ displayAngles' = DefaultDisplayAngles
        /\ ~displayAngles'.showingLastRep
        /\ timers' = {} ]_vars

\* the counter was reset after a repetition whose snapshot was on display
\* and whose warning had been emitted
C12_Witness ==
  /\ squatCounter = 0
  /\ squatStage = "null"
  /\ squatState.lastWarningTime > 0
  /\ renderedShowing
  /\ displayAngles = DefaultDisplayAngles
  /\ currentAngles = DefaultCurrentAngles
  /\ timers = {}

\* the values resetCounter leaves in the state it writes
ResetState ==
  /\ squatCounter = 0
  /\ squatStage = "null"
  /\ warningMessages = << >>
  /\ Neutral(squatState)
  /\ squatState.minHipAngle = 360
  /\ squatState.minHipAnkleDiff = 999
  /\ squatState.angleDisplayTimer = NoTimer
  /\ displayAngles = DefaultDisplayAngles
  /\ currentAngles = DefaultCurrentAngles
  /\ timers = {}

\* C13: resetCounter is idempotent: it leads to a state from which a second
\* resetCounter changes nothing of the counter, the stage, the tracker
\* state, the warnings, the snapshot, the live angles and the timers.
C13_ResetIdempotent ==
  [][ resetCounter =>
        /\ ResetState'
        /\ ResetState =>
             UNCHANGED << squatCounter, squatStage, squatState,
                          warningMessages, displayAngles, currentAngles,
                          timers >> ]_vars

\* a state resetCounter has produced after a repetition, from which the
\* second resetCounter is taken
C13_Witness ==
  /\ ResetState
  /\ squatState.lastWarningTime > 0
  /\ completions = 0
  /\ scenario = OffScript
  /\ now > StartTime

\* C14: once resetCounter has run and until a frame completes a repetition,
\* no snapshot expiry is pending (so none scheduled before the reset can
\* fire), showingLastRep is false, the counter is 0 and the warnings hold
\* nothing but what the "Test Warning" button puts there.  The same holds
\* from the start until the first repetition completes.
C14_NoStaleExpiryAfterReset ==
  completions = 0 =>
    /\ timers = {}
    /\ ~displayAngles.showingLastRep
    /\ squatCounter = 0
    /\ warningMessages \in { << >>, << TestWarningText >> }

\* a repetition was completed and the counter reset; the time at which the
\* expiry of that repetition was due has passed and the next descent has
\* started
C14_Witness ==
  /\ completions = 0
  /\ squatStage = "down"
  /\ squatState.descending
  /\ squatState.lastWarningTime > 0
  /\ now >= squatState.lastWarningTime + 3000
  /\ timers = {}
  /\ ~displayAngles.showingLastRep

DueTimes == { StartTime + k * TickMs + 3000 : k \in 0..LiveTicks }

\* an expiry due at d is pending
PendingDue(d) == \E t \in timers : t.due = d

C17_WarningExpiry ==
  [][ /\ now - squatState'.lastWarningTime > 2000 /\ warningMessages' # << >>
           => \A f \in AllFrames : ~Analysed(f)
      /\ ( /\ warningMessages # << >>
           /\ warningMessages' = << >>
           /\ now - squatState.lastWarningTime <= 2000 )
           => \A f \in AllFrames : ~handleLandmark(f) ]_vars

\* the warning emitted at StartTime was cleared by the frame with knee
\* angle 30 analysed two ticks later
C17_Witness ==
  /\ squatCounter = 1
  /\ squatState.lastWarningTime = StartTime
  /\ now = StartTime + 2 * TickMs
  /\ warningMessages = << >>
  /\ ~skipped
  /\ currentAngles.kneeAngle = 30

\* C17 as the specification words it: after any frame, skipped or not, at
\* which more than 2000 ms have passed since lastWarningTime the warnings
\* are empty.
C17_AsWritten ==
  [][ now - squatState'.lastWarningTime > 2000 /\ warningMessages' # << >>
        => \A f \in AllFrames : ~handleLandmark(f) ]_vars

\* the warnings the depth rule gives for a frozen maxKneeAngle
DepthRule(maxKneeAngle) ==
  IF Gt(maxKneeAngle, 140) THEN << TooDeep >>
  ELSE IF Lt(maxKneeAngle, 100) THEN << NotDeepEnough >>
  ELSE << >>

\* message w is in the list msgs
Shown(w, msgs) == \E i \in 1..Len(msgs) : msgs[i] = w

\* C18: when a completed repetition emits a warning, the warnings become
\* that warning alone, whatever was in the list before, and lastWarningTime
\* becomes the instant of the frame; a completed repetition that emits no
\* warning leaves lastWarningTime unchanged and the list as it was, or
\* empty when it has expired.
C18_WarningsReplaced ==
  [][ Completes =>
        IF DepthRule(displayAngles'.maxKneeAngle) # << >>
          THEN /\ warningMessages' = DepthRule(displayAngles'.maxKneeAngle)
               /\ squatState'.lastWarningTime = now
          ELSE /\ squatState'.lastWarningTime = squatState.lastWarningTime
               /\ warningMessages' \in { warningMessages, << >> } ]_vars

\* the second repetition, completed at the same instant as the first, has
\* emitted the "too deep" warning, which is alone in the list
C18_Witness ==
  /\ squatCounter = 2
  /\ now = StartTime
  /\ displayAngles.showingLastRep
  /\ displayAngles.maxKneeAngle = 150
  /\ squatState.lastWarningTime = now
  /\ warningMessages = << TooDeep >>

\* C18 as the specification words it: the emitted warning is added to the
\* list and the depth warnings of an earlier repetition that were in the
\* list are still in it.
C18_AsWritten ==
  [][ Completes /\ DepthRule(displayAngles'.maxKneeAngle) # << >> =>
        /\ Shown(DepthRule(displayAngles'.maxKneeAngle)[1], warningMessages')
        /\ Shown(TooDeep, warningMessages)
             => Shown(TooDeep, warningMessages')
        /\ Shown(NotDeepEnough, warningMessages)
             => Shown(NotDeepEnough, warningMessages')
        /\ squatState'.lastWarningTime = now ]_vars

\* C19: a frame with every required landmark present and an undefined
\* angle leaves the counter, the phase and every extremum well defined: no
\* extremum of the tracker is not-a-number, whether the frame arrives
\* between repetitions or during a descent.
C19_AsWritten ==
  /\ squatCounter \in 0..MaxReps
  /\ squatState.descending \in BOOLEAN
  /\ \A i \in 1..5 : ~IsNaN(Extrema(squatState)[i])

\* C20: calculateAngle returns a number in 0..180 also when a or c
\* coincides with the vertex b.
C20_AsWritten ==
  probe.called /\ (probe.a = probe.b \/ probe.c = probe.b)
    => ~IsNaN(probe.angle) /\ probe.angle \in 0..180

\* the vertex b lies strictly between a and c on one line
StraightJoint(a, b, c) ==
  /\ (a[1] - b[1]) * (c[2] - b[2]) = (a[2] - b[2]) * (c[1] - b[1])
  /\ (a[1] - b[1]) * (c[1] - b[1]) + (a[2] - b[2]) * (c[2] - b[2]) < 0

\* C21: for a straight joint, the vertex b strictly between a and c on one
\* line, calculateAngle returns 0: the supplement of the 180 degrees between
\* the two vectors.
C21_StraightJointIsZero ==
  probe.called /\ StraightJoint(probe.a, probe.b, probe.c) => probe.angle = 0

C21_Witness ==
  /\ probe.called
  /\ probe.a = << 0, 0 >> /\ probe.b = << 1, 1 >> /\ probe.c = << 2, 2 >>
  /\ probe.angle = 0

\* C21 as the specification words it: a straight joint reads 180.
C21_AsWritten ==
  probe.called /\ StraightJoint(probe.a, probe.b, probe.c)
    => probe.angle = 180

\* the frame whose three landmarks read by one angle are a, b and c
KneeFrame(a, b, c) == Pose(<< 0, 0 >>, a, b, c, << 0, 0 >>, << 0, 0 >>)
HipFrame(a, b, c) == Pose(a, b, c, << 0, 0 >>, << 0, 0 >>, << 0, 0 >>)
HeelFrame(a, b, c) == Pose(<< 0, 0 >>, << 0, 0 >>, c, << 0, 0 >>, b, a)

C24_StageValues ==
  /\ squatStage = "null"
  /\ [][ /\ squatStage' \in { "null", "up", "down" }
         /\ resetCounter => squatStage' = "null"
         /\ squatStage' = "null"
              => squatCounter' = 0 /\ ~squatState'.descending ]_vars

C24_Witness ==
  /\ squatStage = "null"
  /\ seenHigh
  /\ squatCounter = 0
  /\ now > StartTime

\* C24 as the specification words it: the stage is 'up' or 'down' in every
\* reachable state, the initial one and the one after a reset included.
C24_AsWritten == squatStage \in { "up", "down" }

\* the largest and the smallest number of a finite set of integers
MaxOf(S) == CHOOSE m \in S : \A x \in S : x <= m
MinOf(S) == CHOOSE m \in S : \A x \in S : m <= x

\* the per-frame values of the frames of a history
KneesOf(fs) == { Angles[fs[i]].knee : i \in DOMAIN fs }
HipsOf(fs) == { Angles[fs[i]].hip : i \in DOMAIN fs }
HeelsOf(fs) == { Angles[fs[i]].heel : i \in DOMAIN fs }
KneeXsOf(fs) == { Angles[fs[i]].kneeX : i \in DOMAIN fs }

\* C25: when a repetition completes, the frozen maxKneeAngle, maxHipAngle
\* and maxHeelAngle are the largest, and the frozen minKneeAngle the
\* smallest, of the per-frame values over the frames analysed from the entry
\* frame of the descent through the completing frame, and so is the
\* maxKneeForward the tracker holds when it completes; frames before the
\* entry frame and frames with a landmark missing are not among them.
C25_ExtremaOverDescent ==
  [][ Completes /\ ~trace'.full =>
        /\ Len(trace'.frames) >= 2
        /\ \A i \in DOMAIN trace'.frames :
             ~MissingLandmark(trace'.frames[i])
        /\ displayAngles'.maxKneeAngle = MaxOf(KneesOf(trace'.frames))
        /\ displayAngles'.minKneeAngle = MinOf(KneesOf(trace'.frames))
        /\ displayAngles'.maxHipAngle = MaxOf(HipsOf(trace'.frames))
        /\ displayAngles'.maxHeelAngle = MaxOf(HeelsOf(trace'.frames))
        /\ MathMax(squatState.maxKneeForward,
                   Angles[trace'.frames[Len(trace'.frames)]].kneeX)
             = MaxOf(KneeXsOf(trace'.frames)) ]_vars

C25_Witness ==
  /\ trace.frames = << Knee86, Knee141, Knee100Lean, Knee29 >>
  /\ ~squatState.descending
  /\ displayAngles.showingLastRep
  /\ displayAngles.maxKneeAngle = 141
  /\ displayAngles.minKneeAngle = 29
  /\ displayAngles.maxHipAngle = MaxOf(HipsOf(trace.frames))

\* C26: while the snapshot of the last repetition is showing, it changes
\* only when its expiry fires, another repetition completes or resetCounter
\* runs: every other frame, one handled before the component has rendered
\* again included, leaves showingLastRep true and the snapshot as it is.
C26_AsWritten ==
  [][ displayAngles.showingLastRep /\ displayAngles' # displayAngles
        => Completes \/ resetCounter \/ Expiry ]_vars

\* C27: the expiry callback changes nothing but showingLastRep, which it
\* sets to false: the counter, the stage, descending, the extrema of a
\* descent in progress, the warning flags, the warnings on display and
\* every angle of the snapshot are as they were.
C27_ExpiryOnlyClearsFlag ==
  [][ Expiry =>
        /\ displayAngles' = [ displayAngles EXCEPT !.showingLastRep = FALSE ]
        /\ squatCounter' = squatCounter
        /\ squatStage' = squatStage
        /\ squatState'.descending = squatState.descending
        /\ Extrema(squatState') = Extrema(squatState)
        /\ squatState'.depthWarningGiven = squatState.depthWarningGiven
        /\ squatState'.backWarningGiven = squatState.backWarningGiven
        /\ squatState'.toeWarningGiven = squatState.toeWarningGiven
        /\ squatState'.lastWarningTime = squatState.lastWarningTime
        /\ warningMessages' = warningMessages
        /\ currentAngles' = currentAngles ]_vars

\* the expiry of the first repetition has fired, the snapshot values are
\* still on display and a descent is in progress
C27_Witness ==
  /\ squatCounter = 1
  /\ timers = {}
  /\ ~displayAngles.showingLastRep
  /\ displayAngles.kneeAngle = 29
  /\ displayAngles.maxKneeAngle = 100
  /\ squatState.descending
  /\ squatState.maxKneeAngle = 86

\* the frames fs with those strictly between the first and the last one
\* taken in the order p
Reordered(fs, p) ==
  [ i \in 1..Len(fs) |->
      IF i = 1 \/ i = Len(fs) THEN fs[i] ELSE fs[p[i - 1] + 1] ]

\* what analyzeSquat makes of the frames fs, one after the other, from the
\* tracker state `state`: the extrema it freezes and the warnings it emits
\* at the last frame, and the repetitions it counts on the way
RECURSIVE Replay(_, _, _)
ReplayNext(state2, count, fs, stands) ==
  IF Len(fs) = 1
    THEN [ extrema |-> Extrema(state2),
           warnings |-> DepthWarnings(state2),
           count |-> IF stands THEN count + 1 ELSE count ]
    ELSE Replay(IF stands THEN resetSquatRep(state2) ELSE state2,
                IF stands THEN count + 1 ELSE count, Tail(fs))

ReplayFrame(state2, count, fs, a) ==
  ReplayNext(state2, count, fs, StandsUp(state2, a.knee))

ReplayTracked(state, count, fs, a) ==
  ReplayFrame(Tracked(state, a.knee, a.hip, a.heel, a.kneeX,
                      StartsDescent(state, a.knee)),
              count, fs, a)

Replay(state, count, fs) == ReplayTracked(state, count, fs, Angles[fs[1]])

\* the outcome r of a replayed descent is what this completing step made
SameOutcome(r) ==
  /\ r.extrema[1] = displayAngles'.minKneeAngle
  /\ r.extrema[2] = displayAngles'.maxKneeAngle
  /\ r.extrema[3] = displayAngles'.maxHipAngle
  /\ r.extrema[4] = displayAngles'.maxHeelAngle
  /\ r.extrema[5] = MaxOf(KneeXsOf(trace'.frames))
  /\ r.warnings # << >> => warningMessages' = r.warnings
  /\ r.warnings = << >> => warningMessages' \in { warningMessages, << >> }
  /\ squatCounter' = squatCounter + r.count

\* C28: the extrema are accumulated whatever the order of the frames inside
\* a descent: with the entry frame and the completing frame kept, the frames
\* analysed strictly between them (all with kneeAngle >= 30), in any order,
\* give the same frozen extrema, the same warning and the same counter as
\* the order in which they arrived.
C28_OrderInsensitive ==
  [][ Completes /\ ~trace'.full =>
        /\ \A i \in 2..(Len(trace'.frames) - 1) :
             ~Lt(Angles[trace'.frames[i]].knee, 30)
        /\ \A p \in Permutations(1..(Len(trace'.frames) - 2)) :
             SameOutcome(Replay(resetSquatRep(squatState), 0,
                                Reordered(trace'.frames, p))) ]_vars

C28_Witness ==
  /\ trace.frames = << Knee86, Knee100Lean, Knee141, Knee29 >>
  /\ ~squatState.descending
  /\ squatCounter = 1
  /\ displayAngles.maxKneeAngle = 141
  /\ displayAngles.maxHipAngle = Angles[Knee100Lean].hip
  /\ warningMessages = << TooDeep >>

\* C29: one frame makes at most one phase transition.  The counter grows
\* by at most 1 in a step; a step that increments it starts with descending
\* true and ends with descending false, after a descent whose entry frame,
\* with kneeAngle > 85, was analysed in an earlier step, and is made by a
\* frame with kneeAngle < 30; and a step that enters a descent does not
\* increment the counter.
C29_OneTransitionPerFrame ==
  [][ /\ squatCounter' <= squatCounter + 1
      /\ squatCounter' > squatCounter =>
           /\ squatState.descending /\ ~squatState'.descending
           /\ trace.frames # << >>
           /\ Gt(Angles[trace.frames[1]].knee, 85)
           /\ trace'.frames[1] = trace.frames[1]
           /\ ~trace'.full =>
                /\ Len(trace'.frames) = Len(trace.frames) + 1
                /\ Lt(Angles[trace'.frames[Len(trace'.frames)]].knee, 30)
      /\ ~squatState.descending /\ squatState'.descending =>
           /\ squatCounter' = squatCounter
           /\ Len(trace'.frames) = 1 ]_vars

C29_Witness ==
  /\ squatCounter = 2
  /\ trace.frames = << Knee141, Knee29 >>
  /\ ~squatState.descending

\* C30: for every completed repetition the snapshot has maxKneeAngle >= 86
\* and minKneeAngle equal to the kneeAngle of the completing frame, which is
\* at most 29; and the "not deep enough" warning is emitted, alone and
\* stamped with the time of the frame, exactly when maxKneeAngle is from 86
\* to 99: otherwise that message is on display after the step only if it
\* was before and its time stamp is the old one.
C30_SnapshotBounds ==
  [][ Completes =>
        /\ displayAngles'.maxKneeAngle >= 86
        /\ displayAngles'.maxKneeAngle <= 180
        /\ displayAngles'.minKneeAngle = currentAngles'.kneeAngle
        /\ displayAngles'.minKneeAngle \in 0..29
        /\ displayAngles'.maxKneeAngle \in 86..99 =>
             /\ warningMessages' = << NotDeepEnough >>
             /\ squatState'.lastWarningTime = now
        /\ ( /\ displayAngles'.maxKneeAngle \notin 86..99
             /\ Shown(NotDeepEnough, warningMessages') ) =>
             /\ warningMessages' = warningMessages
             /\ squatState'.lastWarningTime = squatState.lastWarningTime
    ]_vars

\* a shallow repetition followed by one that is deep enough, the warning of
\* the first still on display
C30_Witness ==
  /\ squatCounter = 2
  /\ displayAngles.showingLastRep
  /\ displayAngles.maxKneeAngle = 100
  /\ displayAngles.minKneeAngle = 29
  /\ warningMessages = << NotDeepEnough >>
  /\ squatState.lastWarningTime < now

\* C31: the stage on display and the phase flag of the tracker agree in
\* every state between two handler calls: squatStage is 'down' if and only
\* if squatState.descending is true.
C31_StageMatchesPhase == (squatStage = "down") <=> squatState.descending

\* the second descent, entered from stage 'up'
C31_Witness ==
  /\ squatStage = "down"
  /\ squatState.descending
  /\ squatCounter = 1

\* the stop branch of handleCirclePress
StopPressed == streaming.renderedStreaming /\ handleCirclePress

\* C32: in the streaming screen at most one capture interval runs at any
\* time, and none runs after stopStreaming or after a close event of a
\* socket, however the button presses, the delayed starts and the open and
\* close events of the sockets interleave.
C32_AsWritten ==
  [][ /\ Cardinality(streaming'.intervals) <= 1
      /\ StopPressed \/ SocketClose => streaming'.intervals = {} ]_vars

\* C33: the timer handle the tracker stores is non-null exactly when an
\* expiry of the snapshot is pending: it is null in the initial state, after
\* resetCounter and after the expiry callback has run.
C33_AsWritten ==
  (squatState.angleDisplayTimer # NoTimer) <=> (timers # {})

=============================================================================
